---- MODULE Spec2Model ----
(***************************************************************************)
(* A model of internalblue/adbcore.py (class ADBCore): the receive thread  *)
(* _recvThreadFunc, which de-frames btsnoop records from the snoop socket  *)
(* and fans them out to queues and callbacks, and local_connect with its   *)
(* helpers _setupSockets, _read_btsnoop_hdr and _setupSerialSu.            *)
(*                                                                         *)
(* The specifications share the variables: Spec (and LiveSpec, with the    *)
(* thread scheduled fairly) runs the receive thread on an instance whose   *)
(* sockets are connected; ConnSpec runs local_connect.                     *)
(***************************************************************************)
EXTENDS Integers, Sequences, FiniteSets, TLC

VARIABLES
    exit_requested,            \* self.exit_requested, the stop flag
    pc,                        \* position of the receive thread in _recvThreadFunc
    record_hdr,                \* bytes of the record header accumulated so far
    record_data,               \* bytes of the payload accumulated so far
    unpacked,                  \* orig_len, inc_len, flags, drops, time64 of the header
    record,                    \* the record tuple being dispatched
    qi,                        \* index of the for loop over registeredHciRecvQueues
    cj,                        \* index of the for loop over registeredHciCallbacks
    registeredHciRecvQueues,   \* list of (queue, filter_function)
    registeredHciCallbacks,    \* list of callbacks
    s_snoop_rx,                \* bytes the remote side sends on the snoop socket, not yet read
    write_btsnooplog,          \* self.write_btsnooplog
    btsnooplog_file,           \* the bytes written to self.btsnooplog_file
    dispatched,                \* history: the records built and passed to dispatch, in order
    delivered,                 \* history: queue puts and callback invocations, in order
    g,                         \* history: what happened around the stop flag and the reads
    cpc,                       \* position of the caller in local_connect
    serial,                    \* self.serial
    hciport,                   \* self.hciport
    s_inject,                  \* self.s_inject: NoSock (None) or a socket object
    s_snoop,                   \* self.s_snoop: NoSock (None) or a socket object
    socks,                     \* the socket objects created so far and their state
    forwards,                  \* the adb port forwards in place
    attempt,                   \* which call of _setupSockets is running (0: none)
    shellout,                  \* logfile and interface found by _setupSerialSu
    result,                    \* what local_connect returned
    calls                      \* history: the external operations local_connect issued

recvVars == <<exit_requested, pc, record_hdr, record_data, unpacked, record, qi, cj,
              registeredHciRecvQueues, registeredHciCallbacks, s_snoop_rx,
              dispatched, delivered, g>>
logVars == <<write_btsnooplog, btsnooplog_file>>
connVars == <<cpc, serial, hciport, s_inject, s_snoop, socks, forwards, attempt,
              shellout, result, calls>>
vars == <<recvVars, logVars, connVars>>

None == "None"
NoSock == 0     \* None in s_inject and s_snoop; socket objects are 1, 2, ...

(***************************************************************************)
(* Bounds of the model.                                                    *)
(***************************************************************************)
MaxRecs == 2        \* records the remote side sends in one run
QueueCap == 1       \* maxsize of the first registered queue
MaxSocks == 3       \* local_connect is called again while fewer sockets were created
MaxTeardowns == 2   \* _teardownSockets calls between two local_connect calls
MaxChanges == 1     \* subscribe and unsubscribe calls while the receive thread runs

(***************************************************************************)
(* Program constants.                                                      *)
(***************************************************************************)
RecordHdrLen == 24
GlobalHdrLen == 16

(***************************************************************************)
(* Byte strings: sequences of 0..255.                                      *)
(***************************************************************************)
p32(v) == <<v \div 16777216, (v \div 65536) % 256, (v \div 256) % 256, v % 256>>
u32(b) == ((b[1] * 256 + b[2]) * 256 + b[3]) * 256 + b[4]

\* 0x00E03AB44A676000 as the 8 big-endian bytes of the header's time field
Anchor == <<0, 224, 58, 180, 74, 103, 96, 0>>
ZeroTime == <<0, 0, 0, 0, 0, 0, 0, 0>>

\* struct.unpack(">IIIIq", record_hdr); time64 stays in its 8 bytes
Unpack(h) ==
    [orig_len |-> u32(SubSeq(h, 1, 4)),
     inc_len  |-> u32(SubSeq(h, 5, 8)),
     flags    |-> u32(SubSeq(h, 9, 12)),
     drops    |-> u32(SubSeq(h, 13, 16)),
     time64   |-> SubSeq(h, 17, 24)]

NoHdr == [orig_len |-> 0, inc_len |-> 0, flags |-> 0, drops |-> 0, time64 |-> ZeroTime]

\* The records the remote side may send, as btsnoop writes them.
SentRecords ==
    { [orig_len |-> 1, inc_len |-> 1, flags |-> 0, drops |-> 0, time64 |-> Anchor,
       data |-> <<4>>],
      [orig_len |-> 2, inc_len |-> 2, flags |-> 1, drops |-> 0, time64 |-> ZeroTime,
       data |-> <<2, 7>>],
      [orig_len |-> 0, inc_len |-> 0, flags |-> 0, drops |-> 1, time64 |-> Anchor,
       data |-> <<>>] }

Pack(r) ==
    p32(r.orig_len) \o p32(r.inc_len) \o p32(r.flags) \o p32(r.drops) \o r.time64 \o r.data

RECURSIVE PackAll(_)
PackAll(rs) == IF rs = <<>> THEN <<>> ELSE Pack(Head(rs)) \o PackAll(Tail(rs))

\* The remote side may close mid-record: Cuts are the bytes missing at the end.
Cuts == {0, 1, 13}

Stream(rs, c) == SubSeq(PackAll(rs), 1, Len(PackAll(rs)) - c)

SentStreams == { Stream(rs, c) : rs \in [1..MaxRecs -> SentRecords], c \in Cuts }

\* "btsnoop\0", version 1, datalink type 1002
GlobalHdr == <<98, 116, 115, 110, 111, 111, 112, 0>> \o p32(1) \o p32(1002)

(***************************************************************************)
(* _btsnoop_parse_time: datetime(2000,1,1) + (timedelta(us=time) -         *)
(* timedelta(us=anchor)).  The 64-bit values are kept as 8 big-endian      *)
(* bytes; a datetime is its signed distance in microseconds from           *)
(* 2000-01-01T00:00:00.  datetime holds years 1..9999 only: outside        *)
(* MinTime..MaxTime the addition raises OverflowError.                     *)
(***************************************************************************)
MinTime == <<0, 0, 29, 180, 16, 3, 192, 0>>          \* 0001-01-01T00:00:00
MaxTime == <<4, 97, 33, 191, 219, 162, 223, 255>>    \* 9999-12-31T23:59:59.999999

RECURSIVE LexLess(_, _)
LexLess(a, b) ==
    IF a = <<>> THEN FALSE
    ELSE IF Head(a) # Head(b) THEN Head(a) < Head(b)
    ELSE LexLess(Tail(a), Tail(b))

RECURSIVE SubBytes(_, _, _, _)
SubBytes(a, b, i, borrow) ==
    IF i = 0 THEN <<>>
    ELSE LET d == a[i] - b[i] - borrow
         IN  SubBytes(a, b, i - 1, IF d < 0 THEN 1 ELSE 0)
                 \o <<IF d < 0 THEN d + 256 ELSE d>>

\* faulty variant: datetime arithmetic that never raises OverflowError
_btsnoop_parse_time_Unchecked(time) ==
    IF LexLess(time, Anchor)
    THEN [raised |-> None, before2000 |-> TRUE,  us |-> SubBytes(Anchor, time, 8, 0)]
    ELSE [raised |-> None, before2000 |-> FALSE, us |-> SubBytes(time, Anchor, 8, 0)]

_btsnoop_parse_time(time) ==
    IF time[1] >= 128 \/ LexLess(time, MinTime) \/ LexLess(MaxTime, time)
    THEN [raised |-> "OverflowError", before2000 |-> FALSE, us |-> ZeroTime]
    ELSE IF LexLess(time, Anchor)
         THEN [raised |-> None, before2000 |-> TRUE,  us |-> SubBytes(Anchor, time, 8, 0)]
         ELSE [raised |-> None, before2000 |-> FALSE, us |-> SubBytes(time, Anchor, 8, 0)]

\* parsed_time when _btsnoop_parse_time raised OverflowError (line 233)
NoneTime == [known |-> FALSE, before2000 |-> FALSE, us |-> ZeroTime]

\* hci.parse_hci_packet: bytes -> packet, or a parse failure that keeps the bytes
parse_hci_packet(data) ==
    IF data = <<>> THEN [parsed |-> FALSE, raw |-> data]
    ELSE [parsed |-> TRUE, raw |-> data]

\* the record tuple of lines 230-243
MakeRecord(hdr, data) ==
    LET t == _btsnoop_parse_time(hdr.time64)
    IN  [packet   |-> parse_hci_packet(data),
         orig_len |-> hdr.orig_len,
         inc_len  |-> hdr.inc_len,
         flags    |-> hdr.flags,
         drops    |-> hdr.drops,
         time     |-> IF t.raised = "OverflowError" THEN NoneTime
                      ELSE [known |-> TRUE, before2000 |-> t.before2000, us |-> t.us]]

\* filter_function == None or filter_function(record); the one filter in use keeps
\* the records whose flags say "received" (bit 0)
Accepts(filter, rec) ==
    \/ filter = None
    \/ filter = "received" /\ rec.flags % 2 = 1

\* queue.put(record, block=False) raises queue.Full when maxsize > 0 items are held
QueueFull(q) == q.maxsize > 0 /\ Len(q.items) >= q.maxsize

Min(a, b) == IF a < b THEN a ELSE b

\* what one s_snoop.recv(n) can do: time out, fail with another socket error,
\* return 1..n of the bytes in flight, or return b"" once the remote side has
\* closed after its last byte
RecvOutcomes(n) ==
    {[kind |-> "timeout", n |-> 0], [kind |-> "error", n |-> 0]} \cup
    (IF s_snoop_rx = <<>> THEN {[kind |-> "data", n |-> 0]}
     ELSE {[kind |-> "data", n |-> k] : k \in 1..Min(n, Len(s_snoop_rx))})

RecvEnded == pc \in {"idle", "done", "crashed"}

\* history: the number of the record being read or dispatched
CurRec ==
    IF pc \in {"disp_q", "disp_cb"} THEN Len(dispatched) ELSE Len(dispatched) + 1

\* history counters stop at CountCap
CountCap == 3
Count(n, when) == IF when /\ n < CountCap THEN n + 1 ELSE n

\* history: the moment exit_requested becomes true
NoteStop(h, by) ==
    IF exit_requested THEN h
    ELSE [h EXCEPT !.stopPc = pc, !.stopRec = CurRec, !.stopBy = by,
                   !.stopLeft = unpacked.inc_len - Len(record_data)]

\* history: a recv call starts
NoteRead(h) ==
    [h EXCEPT !.readsAfterStop = Count(@, exit_requested),
              !.afterZero = Count(@, h.zeroRead)]

\* history: recv returned b""
NoteZero(h) == [h EXCEPT !.zeroRead = TRUE, !.zeroRec = CurRec]

\* the consumers registered at this moment
Registered ==
    {[id |-> registeredHciRecvQueues[i].name, filter |-> registeredHciRecvQueues[i].filter] :
        i \in 1..Len(registeredHciRecvQueues)}
    \cup {[id |-> registeredHciCallbacks[j], filter |-> None] :
              j \in 1..Len(registeredHciCallbacks)}

Event(kind, who, id) ==
    [kind |-> kind, who |-> who, id |-> id, rec |-> CurRec, stopped |-> exit_requested]

LogWrite(bytes) ==
    btsnooplog_file' = IF write_btsnooplog THEN btsnooplog_file \o bytes
                       ELSE btsnooplog_file

(***************************************************************************)
(* _recvThreadFunc, one action per step of the thread.                     *)
(***************************************************************************)
\* line 171: while not self.exit_requested; 173: record_hdr = b""
LoopTop ==
    /\ pc = "loop_top"
    /\ IF exit_requested
       THEN /\ pc' = "done"
            /\ UNCHANGED record_hdr
       ELSE /\ pc' = "hdr_guard"
            /\ record_hdr' = <<>>
    /\ UNCHANGED <<exit_requested, record_data, unpacked, record, qi, cj,
                   registeredHciRecvQueues, registeredHciCallbacks, s_snoop_rx,
                   dispatched, delivered, g, logVars, connVars>>

\* line 174: while not self.exit_requested and len(record_hdr) < 24
\* faulty variant: the header loop does not read the stop flag
HdrLoopCond_NoFlag == Len(record_hdr) < RecordHdrLen

HdrLoopCond == ~exit_requested /\ Len(record_hdr) < RecordHdrLen

HdrGuard ==
    /\ pc = "hdr_guard"
    /\ pc' = IF HdrLoopCond THEN "hdr_recv" ELSE "hdr_post"
    /\ UNCHANGED <<exit_requested, record_hdr, record_data, unpacked, record, qi, cj,
                   registeredHciRecvQueues, registeredHciCallbacks, s_snoop_rx,
                   dispatched, delivered, g, logVars, connVars>>

\* faulty variant: every recv asks for a whole header
HdrWanted_Whole == RecordHdrLen

\* line 176: the size asked of s_snoop.recv, 24 - len(record_hdr)
HdrWanted == RecordHdrLen - Len(record_hdr)

\* lines 175-189: one recv of the header loop
HdrRecv ==
    /\ pc = "hdr_recv"
    /\ \E o \in RecvOutcomes(HdrWanted) :
         CASE o.kind = "timeout" ->
                /\ pc' = "hdr_guard"
                /\ g' = NoteRead(g)
                /\ UNCHANGED <<exit_requested, record_hdr, s_snoop_rx>>
           [] o.kind = "error" ->
                /\ pc' = "crashed"
                /\ g' = [NoteRead(g) EXCEPT !.sockErr = TRUE]
                /\ UNCHANGED <<exit_requested, record_hdr, s_snoop_rx>>
           [] o.n = 0 ->
                /\ exit_requested' = TRUE
                /\ pc' = "hdr_post"
                /\ g' = NoteZero(NoteStop(NoteRead(g), "recv"))
                /\ UNCHANGED <<record_hdr, s_snoop_rx>>
           [] OTHER ->
                /\ record_hdr' = record_hdr \o SubSeq(s_snoop_rx, 1, o.n)
                /\ s_snoop_rx' = SubSeq(s_snoop_rx, o.n + 1, Len(s_snoop_rx))
                /\ pc' = "hdr_guard"
                /\ g' = NoteRead(g)
                /\ UNCHANGED exit_requested
    /\ UNCHANGED <<record_data, unpacked, record, qi, cj, registeredHciRecvQueues,
                   registeredHciCallbacks, dispatched, delivered, logVars, connVars>>

\* line 191: if not record_hdr or len(record_hdr) != 24
HdrIncomplete == record_hdr = <<>> \/ Len(record_hdr) # RecordHdrLen

\* lines 191-203: the header is complete or the loop ends
HdrPost ==
    /\ pc = "hdr_post"
    /\ IF HdrIncomplete
       THEN /\ exit_requested' = TRUE
            /\ g' = NoteStop(g, "recv")
            /\ pc' = "done"
            /\ UNCHANGED <<unpacked, record_data, logVars>>
       ELSE /\ LogWrite(record_hdr)
            /\ unpacked' = Unpack(record_hdr)
            /\ record_data' = <<>>
            /\ pc' = "pay_guard"
            /\ UNCHANGED <<exit_requested, g, write_btsnooplog>>
    /\ UNCHANGED <<record_hdr, record, qi, cj, registeredHciRecvQueues,
                   registeredHciCallbacks, s_snoop_rx, dispatched, delivered, connVars>>

\* line 207: while not self.exit_requested and len(record_data) < inc_len
\* faulty variant: the payload loop does not read the stop flag
PayLoopCond_NoFlag == Len(record_data) < unpacked.inc_len

PayLoopCond == ~exit_requested /\ Len(record_data) < unpacked.inc_len

PayGuard ==
    /\ pc = "pay_guard"
    /\ pc' = IF PayLoopCond THEN "pay_recv" ELSE "pay_post"
    /\ UNCHANGED <<exit_requested, record_hdr, record_data, unpacked, record, qi, cj,
                   registeredHciRecvQueues, registeredHciCallbacks, s_snoop_rx,
                   dispatched, delivered, g, logVars, connVars>>

\* lines 208-218: one recv of the payload loop
PayRecv ==
    /\ pc = "pay_recv"
    /\ \E o \in RecvOutcomes(unpacked.inc_len - Len(record_data)) :
         CASE o.kind = "timeout" ->
                /\ pc' = "pay_guard"
                /\ g' = NoteRead(g)
                /\ UNCHANGED <<exit_requested, record_data, s_snoop_rx>>
           [] o.kind = "error" ->
                /\ pc' = "crashed"
                /\ g' = [NoteRead(g) EXCEPT !.sockErr = TRUE]
                /\ UNCHANGED <<exit_requested, record_data, s_snoop_rx>>
           [] o.n = 0 ->
                /\ exit_requested' = TRUE
                /\ pc' = "pay_post"
                /\ g' = NoteZero(NoteStop(NoteRead(g), "recv"))
                /\ UNCHANGED <<record_data, s_snoop_rx>>
           [] OTHER ->
                /\ record_data' = record_data \o SubSeq(s_snoop_rx, 1, o.n)
                /\ s_snoop_rx' = SubSeq(s_snoop_rx, o.n + 1, Len(s_snoop_rx))
                /\ pc' = "pay_guard"
                /\ g' = NoteRead(g)
                /\ UNCHANGED exit_requested
    /\ UNCHANGED <<record_hdr, unpacked, record, qi, cj, registeredHciRecvQueues,
                   registeredHciCallbacks, dispatched, delivered, logVars, connVars>>

\* line 220: if not record_data or len(record_data) != inc_len
\* faulty variant: only the emptiness of the payload is tested, not its length
PayIncomplete_EmptyOnly == record_data = <<>>

PayIncomplete == record_data = <<>> \/ Len(record_data) # unpacked.inc_len

\* lines 220-243: the payload is complete or the loop ends; the record is built
PayPost ==
    /\ pc = "pay_post"
    /\ IF PayIncomplete
       THEN /\ exit_requested' = TRUE
            /\ g' = NoteStop(g, "recv")
            /\ pc' = "done"
            /\ UNCHANGED <<record, qi, dispatched, logVars>>
       ELSE /\ LogWrite(record_data)
            /\ record' = MakeRecord(unpacked, record_data)
            /\ dispatched' = Append(dispatched, record')
            /\ qi' = 1
            /\ pc' = "disp_q"
            /\ g' = [g EXCEPT !.stable = Registered]
            /\ UNCHANGED <<exit_requested, write_btsnooplog>>
    /\ UNCHANGED <<record_hdr, record_data, unpacked, cj, registeredHciRecvQueues,
                   registeredHciCallbacks, s_snoop_rx, delivered, connVars>>

\* lines 251-258: one turn of the loop over registeredHciRecvQueues
DispatchQueue ==
    /\ pc = "disp_q"
    /\ IF qi > Len(registeredHciRecvQueues)
       THEN /\ pc' = "disp_cb"
            /\ qi' = 0
            /\ cj' = 1
            /\ UNCHANGED <<registeredHciRecvQueues, delivered>>
       ELSE LET q == registeredHciRecvQueues[qi]
            IN  /\ qi' = qi + 1
                /\ UNCHANGED <<pc, cj>>
                /\ IF ~Accepts(q.filter, record)
                   THEN UNCHANGED <<registeredHciRecvQueues, delivered>>
                   ELSE IF QueueFull(q)
                   THEN /\ delivered' = Append(delivered, Event("full", qi, q.name))
                        /\ UNCHANGED registeredHciRecvQueues
                   ELSE /\ delivered' = Append(delivered, Event("put", qi, q.name))
                        /\ registeredHciRecvQueues' =
                             [registeredHciRecvQueues EXCEPT
                                ![qi].items = Append(@, record)]
    /\ g' = IF qi > Len(registeredHciRecvQueues) THEN g
            ELSE [g EXCEPT !.afterZero = Count(@, g.zeroRead)]
    /\ UNCHANGED <<exit_requested, record_hdr, record_data, unpacked, record,
                   registeredHciCallbacks, s_snoop_rx, dispatched, logVars, connVars>>

\* faulty variant: the callbacks are visited last registered first
CallbackAt_Reversed(j) == registeredHciCallbacks[Len(registeredHciCallbacks) - j + 1]

\* line 262: the callback the j-th turn of the for loop takes from the list
CallbackAt(j) == registeredHciCallbacks[j]

\* lines 262-263: one turn of the loop over registeredHciCallbacks; the callback
\* returns or raises, and nothing in _recvThreadFunc catches what it raises
DispatchCallback ==
    /\ pc = "disp_cb"
    /\ IF cj > Len(registeredHciCallbacks)
       THEN /\ pc' = "loop_top"
            /\ cj' = 0
            /\ UNCHANGED <<delivered, g>>
       ELSE \E o \in {"return", "raise"} :
              IF o = "raise"
              THEN /\ delivered' = Append(delivered, Event("cb_raise", cj, CallbackAt(cj)))
                   /\ pc' = "crashed"
                   /\ g' = [g EXCEPT !.raised = TRUE,
                                     !.afterZero = Count(@, g.zeroRead)]
                   /\ UNCHANGED cj
              ELSE /\ delivered' = Append(delivered, Event("cb", cj, CallbackAt(cj)))
                   /\ cj' = cj + 1
                   /\ g' = [g EXCEPT !.afterZero = Count(@, g.zeroRead)]
                   /\ UNCHANGED pc
    /\ UNCHANGED <<exit_requested, record_hdr, record_data, unpacked, record, qi,
                   registeredHciRecvQueues, registeredHciCallbacks, s_snoop_rx,
                   dispatched, logVars, connVars>>

RecvThread ==
    \/ LoopTop \/ HdrGuard \/ HdrRecv \/ HdrPost
    \/ PayGuard \/ PayRecv \/ PayPost
    \/ DispatchQueue \/ DispatchCallback

(***************************************************************************)
(* The other threads.                                                      *)
(***************************************************************************)
\* another thread sets exit_requested (shutdown, a crash handler)
SetStop ==
    /\ ~RecvEnded
    /\ ~exit_requested
    /\ exit_requested' = TRUE
    /\ g' = NoteStop(g, "other")
    /\ UNCHANGED <<pc, record_hdr, record_data, unpacked, record, qi, cj,
                   registeredHciRecvQueues, registeredHciCallbacks, s_snoop_rx,
                   dispatched, delivered, logVars, connVars>>

\* a consumer takes the oldest record from its queue
QueueGet ==
    /\ ~RecvEnded
    /\ \E i \in 1..Len(registeredHciRecvQueues) :
         /\ registeredHciRecvQueues[i].items # <<>>
         /\ registeredHciRecvQueues' =
              [registeredHciRecvQueues EXCEPT ![i].items = Tail(@)]
    /\ UNCHANGED <<exit_requested, pc, record_hdr, record_data, unpacked, record, qi, cj,
                   registeredHciCallbacks, s_snoop_rx, dispatched, delivered, g,
                   logVars, connVars>>

NoHistory ==
    [stopPc |-> None, stopRec |-> 0, stopBy |-> None, stopLeft |-> 0,
     readsAfterStop |-> 0, zeroRead |-> FALSE, zeroRec |-> 0, afterZero |-> 0,
     sockErr |-> FALSE, raised |-> FALSE, sent |-> <<>>, cut |-> 0, stable |-> {},
     changes |-> 0]

\* the receive thread starts on an instance local_connect has connected
RecvInit ==
    /\ exit_requested = FALSE
    /\ pc = "loop_top"
    /\ record_hdr = <<>>
    /\ record_data = <<>>
    /\ unpacked = NoHdr
    /\ record = None
    /\ qi = 0
    /\ cj = 0
    /\ registeredHciRecvQueues =
         << [name |-> "q1", maxsize |-> QueueCap, filter |-> None, items |-> <<>>],
            [name |-> "q2", maxsize |-> QueueCap + 1, filter |-> "received",
             items |-> <<>>] >>
    /\ registeredHciCallbacks = <<"cb1", "cb2">>
    /\ \E rs \in [1..MaxRecs -> SentRecords], c \in Cuts :
         /\ s_snoop_rx = Stream(rs, c)
         /\ g = [NoHistory EXCEPT !.sent = rs, !.cut = c]
    /\ write_btsnooplog = TRUE
    /\ btsnooplog_file = GlobalHdr
    /\ dispatched = <<>>
    /\ delivered = <<>>

ConnectedInit ==
    /\ cpc = "returned"
    /\ serial = FALSE
    /\ hciport = 60000
    /\ s_inject = 1
    /\ s_snoop = 2
    /\ socks = <<"open", "open">>
    /\ forwards = {60000, 60001}
    /\ attempt = 0
    /\ shellout = [logfile |-> <<>>, interface |-> <<>>]
    /\ result = "True"
    /\ calls = <<>>

Init == RecvInit /\ ConnectedInit

Next == RecvThread \/ SetStop \/ QueueGet

Spec == Init /\ [][Next]_vars

\* the thread is scheduled as long as it has a step to take
LiveSpec == Spec /\ WF_vars(RecvThread)

(***************************************************************************)
(* Consumer registration by other threads while the receive thread runs.   *)
(***************************************************************************)
\* a list without its first element equal to x (list.remove)
RECURSIVE Remove(_, _)
Remove(list, x) ==
    IF list = <<>> THEN <<>>
    ELSE IF Head(list) = x THEN Tail(list)
    ELSE <<Head(list)>> \o Remove(Tail(list), x)

RECURSIVE RemoveNamed(_, _)
RemoveNamed(list, name) ==
    IF list = <<>> THEN <<>>
    ELSE IF Head(list).name = name THEN Tail(list)
    ELSE <<Head(list)>> \o RemoveNamed(Tail(list), name)

\* history: one more change of the consumer set; a consumer removed during a
\* dispatch did not stay registered for the whole of it
NoteChange(h, removed) ==
    [h EXCEPT !.changes = @ + 1,
              !.stable = IF pc \in {"disp_q", "disp_cb"}
                         THEN {c \in @ : c.id # removed} ELSE @]

Changeable == ~RecvEnded /\ g.changes < MaxChanges

\* Subscribe: a new queue consumer is appended to the shared list
Subscribe ==
    /\ Changeable
    /\ "q3" \notin {c.id : c \in Registered}
    /\ registeredHciRecvQueues' =
         Append(registeredHciRecvQueues,
                [name |-> "q3", maxsize |-> QueueCap, filter |-> None, items |-> <<>>])
    /\ g' = NoteChange(g, None)
    /\ UNCHANGED <<exit_requested, pc, record_hdr, record_data, unpacked, record, qi, cj,
                   registeredHciCallbacks, s_snoop_rx, dispatched, delivered,
                   logVars, connVars>>

\* Unsubscribe: a queue consumer is removed from the shared list
Unsubscribe ==
    /\ Changeable
    /\ \E i \in 1..Len(registeredHciRecvQueues) :
         LET name == registeredHciRecvQueues[i].name
         IN  /\ registeredHciRecvQueues' = RemoveNamed(registeredHciRecvQueues, name)
             /\ g' = NoteChange(g, name)
    /\ UNCHANGED <<exit_requested, pc, record_hdr, record_data, unpacked, record, qi, cj,
                   registeredHciCallbacks, s_snoop_rx, dispatched, delivered,
                   logVars, connVars>>

\* OnRecord: a new callback is appended to the shared list
OnRecord ==
    /\ Changeable
    /\ "cb3" \notin {c.id : c \in Registered}
    /\ registeredHciCallbacks' = Append(registeredHciCallbacks, "cb3")
    /\ g' = NoteChange(g, None)
    /\ UNCHANGED <<exit_requested, pc, record_hdr, record_data, unpacked, record, qi, cj,
                   registeredHciRecvQueues, s_snoop_rx, dispatched, delivered,
                   logVars, connVars>>

\* RemoveCallback: a callback is removed from the shared list
RemoveCallback ==
    /\ Changeable
    /\ \E j \in 1..Len(registeredHciCallbacks) :
         /\ registeredHciCallbacks' = Remove(registeredHciCallbacks, registeredHciCallbacks[j])
         /\ g' = NoteChange(g, registeredHciCallbacks[j])
    /\ UNCHANGED <<exit_requested, pc, record_hdr, record_data, unpacked, record, qi, cj,
                   registeredHciRecvQueues, s_snoop_rx, dispatched, delivered,
                   logVars, connVars>>

SubNext == Next \/ Subscribe \/ Unsubscribe \/ OnRecord \/ RemoveCallback

SubSpec == Init /\ [][SubNext]_vars

\* faulty variant: the upper end leaves no room for hciport + 1
randint_Above(a, b) == {a, b, b + 1}

(***************************************************************************)
(* local_connect and its helpers, one action per external operation.       *)
(***************************************************************************)
\* random.randint(60000, 65534): both ends included; the model draws the ends
\* and the value next to the upper end
PortLow == 60000
PortHigh == 65534
randint(a, b) == {a, b - 1, b}

\* what device().shell(...) may print: nothing, an empty line, a path and a newline
ShellOutputs == { <<>>, <<"\n">>, <<"/", "\n">> }

\* s[:-1]
ButLast(s) == SubSeq(s, 1, Len(s) - 1)

Call(op, out) == [op |-> op, out |-> out, arg |-> 0]

\* history: an operation on a port
CallPort(op, out, port) == [op |-> op, out |-> out, arg |-> port]

\* history: the operations of one kind issued so far
CallsOf(op) == {i \in 1..Len(calls) : calls[i].op = op}

ConnEnded == cpc = "returned"

\* faulty variant: the direct attempt is made whatever self.serial says
SkipPrimary_Never == FALSE

\* line 99: if not self.serial
SkipPrimary == serial

\* lines 99-100: the first _setupSockets is skipped when self.serial is set
LocalConnect ==
    /\ cpc = "start"
    /\ IF ~SkipPrimary
       THEN /\ cpc' = "ss_port"
            /\ attempt' = 1
            /\ calls' = calls \o <<Call("local_connect", IF serial THEN "serial" ELSE "direct"),
                                    Call("_setupSockets", "primary")>>
       ELSE /\ cpc' = "su_su"
            /\ calls' = Append(calls, Call("local_connect",
                                           IF serial THEN "serial" ELSE "direct"))
            /\ UNCHANGED attempt
    /\ UNCHANGED <<serial, hciport, s_inject, s_snoop, socks, forwards, shellout,
                   result, recvVars, logVars>>

\* lines 285-295: the ports are drawn and forwarded
SetupPorts ==
    /\ cpc = "ss_port"
    /\ \E p \in randint(PortLow, PortHigh) :
         /\ hciport' = p
         /\ forwards' = forwards \cup {p, p + 1}
    /\ cpc' = "ss_inject"
    /\ calls' = Append(calls, CallPort("forward", "ok", hciport'))
    /\ UNCHANGED <<serial, s_inject, s_snoop, socks, attempt, shellout, result,
                   recvVars, logVars>>

\* what _setupSockets returning `ok` means to local_connect (lines 100-120)
SetupSocketsReturns(ok) ==
    IF attempt = 1
    THEN IF ok THEN cpc' = "returned" /\ result' = "True"
         ELSE cpc' = "su_su" /\ UNCHANGED result
    ELSE /\ cpc' = "returned"
         /\ result' = IF ok THEN "True" ELSE "False"

\* an exception nothing catches leaves _setupSockets and local_connect
Raises == cpc' = "returned" /\ result' = "raised"

\* lines 298-304: the inject socket is created and connected; socket.error is
\* caught and the attempt fails, the socket object staying in s_inject
ConnectInject ==
    /\ cpc = "ss_inject"
    /\ s_inject' = Len(socks) + 1
    /\ \E o \in {"ok", "error"} :
         /\ calls' = Append(calls, CallPort("connect_inject", o, hciport + 1))
         /\ IF o = "ok"
            THEN /\ socks' = Append(socks, "open")
                 /\ cpc' = "ss_snoop"
                 /\ UNCHANGED result
            ELSE /\ socks' = Append(socks, "new")
                 /\ SetupSocketsReturns(FALSE)
    /\ UNCHANGED <<serial, hciport, s_snoop, forwards, attempt, shellout,
                   recvVars, logVars>>

\* lines 307-309: the snoop socket is created and connected, outside any try
ConnectSnoop ==
    /\ cpc = "ss_snoop"
    /\ s_snoop' = Len(socks) + 1
    /\ \E o \in {"ok", "error"} :
         /\ calls' = Append(calls, CallPort("connect_snoop", o, hciport))
         /\ IF o = "ok"
            THEN /\ socks' = Append(socks, "open")
                 /\ cpc' = "ss_hdr"
                 /\ UNCHANGED result
            ELSE /\ socks' = Append(socks, "new")
                 /\ Raises
    /\ UNCHANGED <<serial, hciport, s_inject, forwards, attempt, shellout,
                   recvVars, logVars>>

\* what self.s_snoop.recv(16) can do on the fresh socket: time out (0.5 s), fail
\* with another socket error, or return 0..16 bytes of the global header
HdrRecvOutcomes ==
    {[kind |-> "timeout", n |-> 0], [kind |-> "error", n |-> 0]} \cup
    {[kind |-> "data", n |-> k] : k \in {0, 8, GlobalHdrLen}}

\* line 128: if len(data) < 16: return None
HdrShort(data) == Len(data) < GlobalHdrLen

\* faulty variant: the header is written whatever the file already holds
LogHeaderDue_NoTell == write_btsnooplog

\* line 130: (self.write_btsnooplog) and self.btsnooplog_file.tell() == 0
LogHeaderDue == write_btsnooplog /\ Len(btsnooplog_file) = 0

\* socket.close() on a socket object; history: a second close is told apart
Close(state) == IF state \in {"closed", "closed_twice"} THEN "closed_twice" ELSE "closed"

\* lines 312-319 with _read_btsnoop_hdr (lines 127-140)
ReadBtsnoopHdr ==
    /\ cpc = "ss_hdr"
    /\ \E o \in HdrRecvOutcomes :
         IF o.kind # "data"
         THEN /\ calls' = Append(calls, Call("recv_hdr", o.kind))
              /\ Raises
              /\ UNCHANGED <<s_inject, s_snoop, socks, forwards, logVars>>
         ELSE LET data == SubSeq(GlobalHdr, 1, o.n)
              IN  IF HdrShort(data)
                  THEN /\ calls' = Append(calls, Call("recv_hdr", "short"))
                       /\ socks' = [socks EXCEPT ![s_inject] = Close(@),
                                                 ![s_snoop] = Close(@)]
                       /\ s_inject' = NoSock
                       /\ s_snoop' = NoSock
                       /\ forwards' = {}
                       /\ SetupSocketsReturns(FALSE)
                       /\ UNCHANGED logVars
                  ELSE /\ calls' = Append(calls, Call("recv_hdr", "ok"))
                       /\ btsnooplog_file' =
                            IF LogHeaderDue
                            THEN btsnooplog_file \o data ELSE btsnooplog_file
                       /\ SetupSocketsReturns(TRUE)
                       /\ UNCHANGED <<s_inject, s_snoop, socks, forwards,
                                      write_btsnooplog>>
    /\ UNCHANGED <<serial, hciport, attempt, shellout, recvVars>>

\* faulty variant: only `su_path is None` is tested
SuMissing_NoneOnly(su_path) == FALSE

\* line 374: su_path is None or len(su_path) == 0 (shell returns a string)
SuMissing(su_path) == Len(su_path) = 0

\* lines 363-376: self.serial is set, then the su check
SerialSuCheckSu ==
    /\ cpc = "su_su"
    /\ serial' = TRUE
    /\ \E su_path \in ShellOutputs :
         /\ calls' = calls \o <<Call("_setupSerialSu", "-"),
                                 Call("shell_su", IF su_path = <<>> THEN "missing"
                                                  ELSE "found")>>
         /\ IF SuMissing(su_path)
            THEN cpc' = "returned" /\ result' = "False"
            ELSE cpc' = "su_nc" /\ UNCHANGED result
    /\ UNCHANGED <<hciport, s_inject, s_snoop, socks, forwards, attempt, shellout,
                   recvVars, logVars>>

\* lines 378-380: the nc check
SerialSuCheckNc ==
    /\ cpc = "su_nc"
    /\ \E out \in ShellOutputs :
         /\ calls' = Append(calls, Call("shell_nc", IF out = <<>> THEN "missing"
                                                    ELSE "found"))
         /\ IF out = <<>>
            THEN cpc' = "returned" /\ result' = "False"
            ELSE cpc' = "su_logfile" /\ UNCHANGED result
    /\ UNCHANGED <<serial, hciport, s_inject, s_snoop, socks, forwards, attempt,
                   shellout, recvVars, logVars>>

\* line 383: the btsnoop log file is looked up with lsof
SerialSuLogfile ==
    /\ cpc = "su_logfile"
    /\ \E out \in ShellOutputs :
         /\ shellout' = [shellout EXCEPT !.logfile = ButLast(out)]
         /\ calls' = Append(calls, Call("shell_logfile",
                                        IF ButLast(out) = <<>> THEN "missing" ELSE "found"))
    /\ cpc' = "su_iface"
    /\ UNCHANGED <<serial, hciport, s_inject, s_snoop, socks, forwards, attempt,
                   result, recvVars, logVars>>

\* line 385: the Bluetooth tty is looked up with lsof
SerialSuInterface ==
    /\ cpc = "su_iface"
    /\ \E out \in ShellOutputs :
         /\ shellout' = [shellout EXCEPT !.interface = ButLast(out)]
         /\ calls' = Append(calls, Call("shell_interface",
                                        IF ButLast(out) = <<>> THEN "missing" ELSE "found"))
    /\ cpc' = "su_spawn"
    /\ UNCHANGED <<serial, hciport, s_inject, s_snoop, socks, forwards, attempt,
                   result, recvVars, logVars>>

\* lines 388-402 and 113: both paths are tested, the three pipelines are started,
\* the caller sleeps and _setupSockets is called again
SerialSuSpawn ==
    /\ cpc = "su_spawn"
    /\ IF shellout.logfile = <<>> \/ shellout.interface = <<>>
       THEN /\ cpc' = "returned"
            /\ result' = "False"
            /\ UNCHANGED <<calls, attempt>>
       ELSE /\ calls' = calls \o <<Call("spawn", "tail_logfile_nc_8872"),
                                   Call("spawn", "nc_8873_staging"),
                                   Call("spawn", "tail_staging_interface"),
                                   Call("sleep", "2"),
                                   Call("_setupSockets", "retry")>>
            /\ cpc' = "ss_port"
            /\ attempt' = 2
            /\ UNCHANGED result
    /\ UNCHANGED <<serial, hciport, s_inject, s_snoop, socks, forwards, shellout,
                   recvVars, logVars>>

\* the receive thread is not running while local_connect runs
RecvIdle ==
    /\ exit_requested = FALSE
    /\ pc = "idle"
    /\ record_hdr = <<>>
    /\ record_data = <<>>
    /\ unpacked = NoHdr
    /\ record = None
    /\ qi = 0
    /\ cj = 0
    /\ registeredHciRecvQueues = <<>>
    /\ registeredHciCallbacks = <<>>
    /\ s_snoop_rx = <<>>
    /\ dispatched = <<>>
    /\ delivered = <<>>
    /\ g = NoHistory

\* the instance after __init__ (lines 41-44), local_connect being called
ConnInit ==
    /\ cpc = "start"
    /\ serial \in BOOLEAN
    /\ hciport = 0
    /\ s_inject = NoSock
    /\ s_snoop = NoSock
    /\ socks = <<>>
    /\ forwards = {}
    /\ attempt = 0
    /\ shellout = [logfile |-> <<>>, interface |-> <<>>]
    /\ result = "none"
    /\ calls = <<>>
    /\ write_btsnooplog \in BOOLEAN
    /\ btsnooplog_file = <<>>

\* faulty variant: the handle is kept after the close
AfterClose_Keep(sock) == sock

\* lines 328 and 331: self.s_inject = None, self.s_snoop = None
AfterClose(sock) == NoSock

\* history: how many sockets one _teardownSockets closed
Closed(n) == IF n = 0 THEN "closed0" ELSE IF n = 1 THEN "closed1" ELSE "closed2"

\* lines 326-335: _teardownSockets, called by the owner while local_connect is
\* not running
TeardownSockets ==
    /\ cpc \in {"start", "returned"}
    /\ Cardinality(CallsOf("_teardownSockets")) < MaxTeardowns
    /\ LET inj == s_inject # NoSock
           sno == s_snoop # NoSock
           s1  == IF inj THEN [socks EXCEPT ![s_inject] = Close(@)] ELSE socks
       IN  /\ socks' = IF sno THEN [s1 EXCEPT ![s_snoop] = Close(@)] ELSE s1
           /\ s_inject' = IF inj THEN AfterClose(s_inject) ELSE s_inject
           /\ s_snoop' = IF sno THEN AfterClose(s_snoop) ELSE s_snoop
           /\ calls' = Append(calls, Call("_teardownSockets",
                                          Closed((IF inj THEN 1 ELSE 0)
                                                 + (IF sno THEN 1 ELSE 0))))
    /\ forwards' = IF hciport # 0 THEN {} ELSE forwards
    /\ UNCHANGED <<cpc, serial, hciport, attempt, shellout, result, recvVars, logVars>>

\* lines 197-199 and 226-228: between two local_connect calls the receive thread
\* of a connected instance has logged a record
ReceiveThreadLogged ==
    /\ cpc = "returned"
    /\ result = "True"
    /\ write_btsnooplog
    /\ Len(btsnooplog_file) <= GlobalHdrLen
    /\ \E r \in SentRecords : btsnooplog_file' = btsnooplog_file \o Pack(r)
    /\ UNCHANGED <<write_btsnooplog, connVars, recvVars>>

\* the owner calls local_connect again on the same instance
LocalConnectAgain ==
    /\ cpc = "returned"
    /\ Len(socks) < MaxSocks
    /\ cpc' = "start"
    /\ result' = "none"
    /\ attempt' = 0
    /\ calls' = <<>>
    /\ UNCHANGED <<serial, hciport, s_inject, s_snoop, socks, forwards, shellout,
                   recvVars, logVars>>

ConnNext ==
    \/ LocalConnect \/ SetupPorts \/ ConnectInject \/ ConnectSnoop \/ ReadBtsnoopHdr
    \/ SerialSuCheckSu \/ SerialSuCheckNc \/ SerialSuLogfile \/ SerialSuInterface
    \/ SerialSuSpawn
    \/ TeardownSockets \/ ReceiveThreadLogged \/ LocalConnectAgain

ConnSpecInit == RecvIdle /\ ConnInit

ConnSpec == ConnSpecInit /\ [][ConnNext]_vars

(***************************************************************************)
(* Claims about the receive thread.                                        *)
(***************************************************************************)
IsDelivery(e) == e.kind \in {"put", "cb", "cb_raise"}

\* C1 as stated: once exit_requested is true, no queue put and no callback
\* invocation happens for any record.
C1_NoDispatchAfterStop ==
    \A i \in 1..Len(delivered) : IsDelivery(delivered[i]) => ~delivered[i].stopped

\* C1, amended: the flag is read only by the loop conditions, so after it
\* became true the only record still dispatched is the one in progress at that
\* moment, and only when it was already being dispatched, its payload was
\* already complete, or the recv completing it was already committed to; a
\* record whose header was still being read, and every later record, is not
\* dispatched.
C1_OnlyRecordInProgress ==
    \A i \in 1..Len(delivered) :
        delivered[i].stopped =>
            /\ g.stopBy = "other"
            /\ delivered[i].rec = g.stopRec
            /\ \/ g.stopPc \in {"disp_q", "disp_cb", "pay_recv"}
               \/ g.stopPc \in {"pay_guard", "pay_post"} /\ g.stopLeft = 0

C1_Witness ==
    /\ g.stopPc = "pay_recv"
    /\ \E i \in 1..Len(delivered) :
         delivered[i].stopped /\ delivered[i].kind = "cb" /\ delivered[i].who = 2

\* C2 as stated: a header with includedLength = 0, read with the stop flag
\* false, leads to the dispatch of a record with an empty payload and leaves
\* the stop flag false.
C2_ZeroLengthDispatched ==
    [][ (pc = "pay_post" /\ unpacked.inc_len = 0 /\ ~exit_requested /\ pc' # pc)
            => (pc' = "disp_q" /\ ~exit_requested' /\ record'.packet.raw = <<>>) ]_vars

\* C3 as stated: when a callback raises on record N the loop does not end, and
\* once the loop is past record N every callback registered after the raising
\* one has received record N.
C3_CallbackIsolation ==
    \A i \in 1..Len(delivered) :
        delivered[i].kind = "cb_raise" =>
            /\ ~(pc = "crashed" /\ ~g.sockErr)
            /\ (RecvEnded \/ CurRec > delivered[i].rec) =>
                   \A c \in (delivered[i].who + 1)..Len(registeredHciCallbacks) :
                       \E k \in 1..Len(delivered) :
                           /\ delivered[k].kind \in {"cb", "cb_raise"}
                           /\ delivered[k].who = c
                           /\ delivered[k].rec = delivered[i].rec

\* C4 as stated: no queue ever holds more than its capacity, and a record
\* dropped for a full queue is still offered to every other accepting queue
\* and handed to every callback once the loop is past that record.
C4_Backpressure ==
    /\ \A q \in 1..Len(registeredHciRecvQueues) :
         Len(registeredHciRecvQueues[q].items) <= registeredHciRecvQueues[q].maxsize
    /\ \A i \in 1..Len(delivered) :
         (delivered[i].kind = "full" /\ (RecvEnded \/ CurRec > delivered[i].rec)) =>
            /\ \A q \in 1..Len(registeredHciRecvQueues) :
                 Accepts(registeredHciRecvQueues[q].filter, dispatched[delivered[i].rec]) =>
                    \E k \in 1..Len(delivered) :
                        /\ delivered[k].kind \in {"put", "full"}
                        /\ delivered[k].who = q
                        /\ delivered[k].rec = delivered[i].rec
            /\ \A c \in 1..Len(registeredHciCallbacks) :
                 \E k \in 1..Len(delivered) :
                     /\ delivered[k].kind \in {"cb", "cb_raise"}
                     /\ delivered[k].who = c
                     /\ delivered[k].rec = delivered[i].rec

\* C5 as stated: after a non-timeout socket error of a read the stop flag is
\* true and the loop is on its way to its normal exit; whenever the loop has
\* ended, the stop flag is true.
C5_SocketErrorStops ==
    /\ g.sockErr => (exit_requested /\ pc \in {"hdr_post", "pay_post", "done"})
    /\ pc \in {"done", "crashed"} => exit_requested

\* C6: after a zero-byte read the stop flag is true, the loop is leaving (no
\* further read, queue put or callback), and the record that was being read is
\* never built or delivered, nor is any later one.
C6_RemoteClosed ==
    g.zeroRead =>
        /\ exit_requested
        /\ pc \in {"hdr_post", "pay_post", "done"}
        /\ g.afterZero = 0
        /\ Len(dispatched) < g.zeroRec
        /\ \A i \in 1..Len(delivered) : delivered[i].rec < g.zeroRec

C6_Witness ==
    /\ g.zeroRead
    /\ pc = "done"
    /\ record_data # <<>>
    /\ Len(record_data) < unpacked.inc_len
    /\ delivered # <<>>

\* C7: once the stop flag is true the loop starts at most one more socket
\* read, and, if no read fails with a socket error and no callback raises, it
\* reaches its exit.
C7_StopLiveness ==
    /\ [](g.readsAfterStop <= 1)
    /\ (exit_requested /\ ~g.sockErr /\ ~g.raised)
           ~> (pc = "done" \/ g.sockErr \/ g.raised)

C7_Witness ==
    /\ pc = "done"
    /\ g.stopBy = "other"
    /\ g.readsAfterStop = 1

(***************************************************************************)
(* Claims about local_connect.                                             *)
(***************************************************************************)
Missing(op) == \E i \in CallsOf(op) : calls[i].out = "missing"
Found(op) == \E i \in CallsOf(op) : calls[i].out = "found"
AllBefore(a, b) == \A j \in CallsOf(b) : \E i \in CallsOf(a) : i < j
InFallback(j) == \E i \in CallsOf("_setupSerialSu") : i < j
ConnectOps == {"_setupSockets", "forward", "connect_inject", "connect_snoop", "recv_hdr"}

\* C8: the fallback issues the su check, the nc check and the two path
\* lookups in this order, each only after the one before it succeeded; a
\* missing su, nc, log-file path or interface path ends local_connect with
\* failure, before the next check (su, nc) or before any pipeline is spawned,
\* and without any connect attempt after it; a connect attempt made after the
\* fallback was entered follows all four successful checks and the spawning of
\* the three pipelines.
C8_FallbackOrdering ==
    /\ CallsOf("shell_nc") # {} => Found("shell_su") /\ AllBefore("shell_su", "shell_nc")
    /\ CallsOf("shell_logfile") # {} =>
           Found("shell_nc") /\ AllBefore("shell_nc", "shell_logfile")
    /\ AllBefore("shell_logfile", "shell_interface")
    /\ CallsOf("spawn") # {} =>
           /\ Found("shell_logfile") /\ Found("shell_interface")
           /\ AllBefore("shell_interface", "spawn")
    /\ Missing("shell_su") \/ Missing("shell_nc") => ConnEnded /\ result = "False"
    /\ Missing("shell_logfile") \/ Missing("shell_interface") =>
           \/ cpc \in {"su_iface", "su_spawn"}
           \/ ConnEnded /\ result = "False"
    /\ Missing("shell_su") \/ Missing("shell_nc") \/ Missing("shell_logfile")
         \/ Missing("shell_interface") =>
           /\ CallsOf("spawn") = {}
           /\ \A j \in 1..Len(calls) : calls[j].op \in ConnectOps => ~InFallback(j)
    /\ \A j \in 1..Len(calls) :
           (calls[j].op \in ConnectOps /\ InFallback(j)) =>
               /\ Found("shell_su") /\ Found("shell_nc")
               /\ Found("shell_logfile") /\ Found("shell_interface")
               /\ Cardinality({i \in CallsOf("spawn") : i < j}) = 3

C8_Witness ==
    /\ Missing("shell_nc")
    /\ CallsOf("connect_inject") # {}
    /\ ConnEnded
    /\ result = "False"

FailedAt(i) ==
    /\ calls[i].op \in {"connect_inject", "connect_snoop", "recv_hdr"}
    /\ calls[i].out # "ok"

\* C9 as stated: _setupSerialSu runs at most once and _setupSockets at most
\* twice, exactly once after a successful fallback setup; when that retry
\* fails local_connect returns failure; when the primary attempt succeeds no
\* shell command was run and no pipeline spawned.
C9_SingleRetry ==
    /\ Cardinality(CallsOf("_setupSerialSu")) <= 1
    /\ Cardinality(CallsOf("_setupSockets")) <= 2
    /\ \A k \in CallsOf("sleep") :
           Cardinality({j \in CallsOf("_setupSockets") : j > k}) = 1
    /\ \A i \in 1..Len(calls) :
           (FailedAt(i) /\ InFallback(i)) => (ConnEnded /\ result = "False")
    /\ (result = "True" /\ attempt = 1) =>
           \A i \in 1..Len(calls) :
               calls[i].op \in ConnectOps \cup {"local_connect", "_teardownSockets"}

\* C10 as stated: a failed or short validation read, or a failed connect of
\* the inject or the snoop socket, makes _setupSockets return failure to
\* local_connect, which on the primary attempt then enters the fallback.
C10_ValidationFailureReported ==
    \A i \in 1..Len(calls) :
        FailedAt(i) =>
            /\ result # "raised"
            /\ ~InFallback(i) => (cpc = "su_su" \/ CallsOf("_setupSerialSu") # {})

TeardownAt(i) == calls[i].op = "_teardownSockets"

TeardownDone == calls # <<>> /\ TeardownAt(Len(calls))

\* C11: _teardownSockets leaves both socket handles absent whatever they held
\* (an open socket, a socket that never connected, nothing after a failed
\* validation, nothing because no socket was ever created), a
\* _teardownSockets that directly follows another one closes no socket, and
\* no socket object is ever closed a second time.
C11_TeardownIdempotent ==
    /\ TeardownDone => s_inject = NoSock /\ s_snoop = NoSock
    /\ \A i \in 2..Len(calls) :
           TeardownAt(i) /\ TeardownAt(i - 1) => calls[i].out = "closed0"
    /\ \A k \in 1..Len(socks) : socks[k] # "closed_twice"

\* a teardown that closed two sockets is directly followed by a second teardown
C11_Witness ==
    \E i \in 2..Len(calls) :
        /\ TeardownAt(i) /\ TeardownAt(i - 1)
        /\ calls[i - 1].out = "closed2"
        /\ calls[i].out = "closed0"

\* C12: when _teardownSockets has finished, every socket object created by
\* _setupSockets has been closed exactly once.
C12_ReleasedExactlyOnce ==
    TeardownDone => \A k \in 1..Len(socks) : socks[k] = "closed"

\* the latest adb forward before call i
LastForward(i) ==
    CHOOSE j \in CallsOf("forward") :
        j < i /\ \A k \in CallsOf("forward") : k < i => k <= j

PortsPaired ==
    /\ \A i \in CallsOf("connect_inject") :
           /\ \E j \in CallsOf("forward") : j < i
           /\ calls[i].arg = calls[LastForward(i)].arg + 1
    /\ \A i \in CallsOf("connect_snoop") :
           /\ \E j \in CallsOf("forward") : j < i
           /\ calls[i].arg = calls[LastForward(i)].arg

\* C13 as stated: every snoop port p chosen by a connect attempt satisfies
\* 60000 <= p < 65534 and the inject port is p + 1.
C13_PortHalfOpen ==
    /\ \A i \in CallsOf("forward") :
           PortLow <= calls[i].arg /\ calls[i].arg < PortHigh
    /\ PortsPaired

\* C13: every snoop port p chosen by a connect attempt satisfies
\* 60000 <= p <= 65534 (both ends included), the inject port is p + 1, and so
\* the inject port is at most 65535.
C13_PortInclusive ==
    /\ \A i \in CallsOf("forward") :
           PortLow <= calls[i].arg /\ calls[i].arg <= PortHigh
    /\ PortsPaired
    /\ \A i \in CallsOf("connect_inject") : calls[i].arg <= PortHigh + 1

\* the inject socket connects to port 65535, the snoop port being 65534
C13_Witness ==
    \E i \in CallsOf("connect_inject") :
        calls[i].arg = PortHigh + 1 /\ calls[LastForward(i)].arg = PortHigh

\* positions of the log at which the 16 bytes of the global header start
HeaderAt ==
    {k \in 1..(Len(btsnooplog_file) - GlobalHdrLen + 1) :
        SubSeq(btsnooplog_file, k, k + GlobalHdrLen - 1) = GlobalHdr}

\* C19: with logging enabled on an initially empty log, the log is empty until
\* the first successful validation, from then on it starts with the global
\* header, and the global header appears in it only once, whatever number of
\* validations (failed, retried or repeated by a later local_connect) follow.
C19_GlobalHeaderOnce ==
    write_btsnooplog =>
        /\ btsnooplog_file # <<>> => HeaderAt = {1}
        /\ (\E i \in CallsOf("recv_hdr") : calls[i].out = "ok") => btsnooplog_file # <<>>
        /\ result = "True" => btsnooplog_file # <<>>

\* a later local_connect validates again on a log that already holds the global
\* header and a record
C19_Witness ==
    /\ write_btsnooplog
    /\ Len(btsnooplog_file) > GlobalHdrLen
    /\ \E i \in CallsOf("recv_hdr") : calls[i].out = "ok"

\* a local_connect that started with self.serial set
SerialConnect(i) == calls[i].op = "local_connect" /\ calls[i].out = "serial"

\* C20: self.serial only changes from False to True; it is True as soon as
\* _setupSerialSu has been entered, whether that setup then succeeds or fails;
\* a local_connect that starts with self.serial set makes no direct primary
\* attempt and enters _setupSerialSu first.
C20_SerialSticky ==
    /\ [][serial => serial']_vars
    /\ [](/\ CallsOf("_setupSerialSu") # {} => serial
          /\ \A i \in 1..Len(calls) :
                 SerialConnect(i) =>
                     /\ serial
                     /\ \A j \in CallsOf("_setupSockets") : calls[j].out # "primary"
                     /\ i < Len(calls) => calls[i + 1].op = "_setupSerialSu")

\* a second local_connect on an instance whose first local_connect fell back
\* has run the fallback setup again and retried
C20_Witness ==
    /\ socks # <<>>
    /\ \E i \in 1..Len(calls) :
           /\ SerialConnect(i)
           /\ \E j \in CallsOf("_setupSockets") : j > i /\ calls[j].out = "retry"


\* bytes that are whole btsnoop records: 24-byte header, then inc_len bytes
RECURSIVE WholeRecords(_)
WholeRecords(bytes) ==
    IF bytes = <<>> THEN TRUE
    ELSE IF Len(bytes) < RecordHdrLen THEN FALSE
    ELSE LET n == RecordHdrLen + u32(SubSeq(bytes, 5, 8))
         IN  Len(bytes) >= n /\ WholeRecords(SubSeq(bytes, n + 1, Len(bytes)))

\* C15: with logging enabled on a log that held nothing but the global header,
\* whenever the receive loop has stopped the log is the 16-byte global header
\* followed by whole records (24-byte header, then inc_len payload bytes).
C15_LogWholeRecords ==
    (pc = "done" /\ write_btsnooplog) =>
        /\ Len(btsnooplog_file) >= GlobalHdrLen
        /\ SubSeq(btsnooplog_file, 1, GlobalHdrLen) = GlobalHdr
        /\ WholeRecords(SubSeq(btsnooplog_file, GlobalHdrLen + 1, Len(btsnooplog_file)))

\* the header fields and the record of the i-th record the remote side sent
SentHdr(i) ==
    [orig_len |-> g.sent[i].orig_len, inc_len |-> g.sent[i].inc_len,
     flags |-> g.sent[i].flags, drops |-> g.sent[i].drops, time64 |-> g.sent[i].time64]

SentRecord(i) == MakeRecord(SentHdr(i), g.sent[i].data)

IsPrefix(a, b) == Len(a) <= Len(b) /\ a = SubSeq(b, 1, Len(a))

\* the bytes of the record being read that the loop holds
InProgress ==
    IF pc \in {"hdr_guard", "hdr_recv", "hdr_post"} THEN record_hdr
    ELSE IF pc \in {"pay_guard", "pay_recv", "pay_post"} THEN record_hdr \o record_data
    ELSE <<>>

AllPositive == \A i \in 1..Len(g.sent) : g.sent[i].inc_len >= 1

\* C16: for a stream of records with inc_len >= 1, however recv splits it and
\* however many timeouts occur: a recv never asks for more than is missing of
\* the current header or payload; the records passed to dispatch are the sent
\* records, in order, with the sent header fields and payload; the bytes taken
\* from the socket are exactly the dispatched records plus the part of the
\* next record read so far, so no record is lost, merged or dispatched twice.
C16_FramingIndependent ==
    AllPositive =>
        /\ Len(dispatched) <= Len(g.sent)
        /\ \A i \in 1..Len(dispatched) : dispatched[i] = SentRecord(i)
        /\ pc = "hdr_recv" =>
               HdrWanted >= 1 /\ HdrWanted <= RecordHdrLen - Len(record_hdr)
        /\ pc = "pay_recv" => Len(record_data) < unpacked.inc_len
        /\ pc \in {"pay_guard", "pay_recv", "pay_post"} =>
               unpacked = SentHdr(Len(dispatched) + 1)
        /\ pc \notin {"done", "crashed"} =>
               /\ PackAll(SubSeq(g.sent, 1, Len(dispatched))) \o InProgress \o s_snoop_rx
                      = Stream(g.sent, g.cut)
               /\ InProgress # <<>> =>
                      IsPrefix(InProgress, Pack(g.sent[Len(dispatched) + 1]))
        /\ (pc = "loop_top" /\ s_snoop_rx = <<>> /\ g.cut = 0) => Len(dispatched) = Len(g.sent)

\* a first record has been dispatched and the payload of the second has been
\* read in part
C16_Witness ==
    /\ AllPositive
    /\ Len(dispatched) = 1
    /\ pc = "pay_guard"
    /\ 0 < Len(record_data) /\ Len(record_data) < unpacked.inc_len
    /\ ~exit_requested

IsConsumerEvent(e) == e.kind \in {"put", "full", "cb", "cb_raise"}

IsQueueEvent(e) == e.kind \in {"put", "full"}

\* the dispatch of record r has run to its end
FullyDone(r) ==
    \/ r < Len(dispatched)
    \/ r = Len(dispatched) /\ pc \notin {"disp_q", "disp_cb"} /\ ~g.raised

\* record r was offered once to every queue that accepts it and passed once to
\* every callback
OfferedToAll(r) ==
    /\ \A q \in 1..Len(registeredHciRecvQueues) :
           Cardinality({k \in 1..Len(delivered) :
                           /\ delivered[k].rec = r
                           /\ IsQueueEvent(delivered[k])
                           /\ delivered[k].id = registeredHciRecvQueues[q].name})
               = IF Accepts(registeredHciRecvQueues[q].filter, dispatched[r]) THEN 1 ELSE 0
    /\ \A c \in 1..Len(registeredHciCallbacks) :
           Cardinality({k \in 1..Len(delivered) :
                           /\ delivered[k].rec = r
                           /\ delivered[k].kind = "cb"
                           /\ delivered[k].id = registeredHciCallbacks[c]}) = 1

CallbackPos(id) == CHOOSE c \in 1..Len(registeredHciCallbacks) : registeredHciCallbacks[c] = id

\* the successful puts into queue q, oldest first
PutsInto(q) ==
    SelectSeq(delivered,
              LAMBDA e : e.kind = "put" /\ e.id = registeredHciRecvQueues[q].name)

\* C17: for each record the queues are offered the record, in list order,
\* before any callback is invoked; the callbacks are invoked in registration
\* order; a record is fully dispatched before the loop reads any byte of the
\* next one; the items a queue holds are the records put into it, in stream
\* order.
C17_DispatchOrder ==
    /\ \A i, j \in 1..Len(delivered) :
           i < j =>
               /\ delivered[i].rec <= delivered[j].rec
               /\ delivered[i].rec = delivered[j].rec =>
                      /\ IsQueueEvent(delivered[j]) =>
                             IsQueueEvent(delivered[i]) /\ delivered[i].who < delivered[j].who
                      /\ (~IsQueueEvent(delivered[i]) /\ ~IsQueueEvent(delivered[j])) =>
                             CallbackPos(delivered[i].id) < CallbackPos(delivered[j].id)
    /\ \A r \in 1..Len(dispatched) : FullyDone(r) => OfferedToAll(r)
    /\ (pc \in {"hdr_guard", "hdr_recv", "hdr_post", "pay_guard", "pay_recv", "pay_post"}
           /\ InProgress # <<>>) =>
           \A r \in 1..Len(dispatched) : FullyDone(r)
    /\ \A q \in 1..Len(registeredHciRecvQueues) :
           LET items == registeredHciRecvQueues[q].items
               puts  == PutsInto(q)
           IN  /\ Len(items) <= Len(puts)
               /\ \A k \in 1..Len(items) :
                      items[k] = dispatched[puts[Len(puts) - Len(items) + k].rec]
               /\ \A k \in 1..(Len(puts) - 1) : puts[k].rec < puts[k + 1].rec

\* two records went to both queues and the callbacks of the second have run
C17_Witness ==
    /\ Len(dispatched) = 2
    /\ pc = "loop_top"
    /\ Len(PutsInto(1)) = 2
    /\ Len(PutsInto(2)) = 2
    /\ \E k \in 1..Len(delivered) :
           delivered[k].rec = 2 /\ delivered[k].kind = "cb" /\ delivered[k].id = "cb2"

\* 0x00E03AB44A676000 + 1, the last representable time + 1 and the first
\* representable time - 1
AnchorPlus1 == <<0, 224, 58, 180, 74, 103, 96, 1>>
MaxTimePlus1 == <<4, 97, 33, 191, 219, 162, 224, 0>>
MinTimeMinus1 == <<0, 0, 29, 180, 16, 3, 191, 255>>

\* C18: a record whose timestamp makes the conversion overflow is built with
\* an unknown time and is dispatched to every consumer like any other record;
\* building it does not set the stop flag, and once its dispatch has ended the
\* loop is back at its top; a timestamp equal to the anchor gives
\* 2000-01-01T00:00:00.
C18_TimestampOverflow ==
    /\ \A i \in 1..Len(dispatched) :
           /\ g.sent[i].time64 = ZeroTime => dispatched[i].time = NoneTime
           /\ g.sent[i].time64 = Anchor =>
                  dispatched[i].time = [known |-> TRUE, before2000 |-> FALSE, us |-> ZeroTime]
           /\ (dispatched[i].time = NoneTime /\ FullyDone(i)) => OfferedToAll(i)
    /\ (pc \in {"disp_q", "disp_cb"} /\ record.time = NoneTime /\ exit_requested) =>
           g.stopBy # "recv"
    /\ _btsnoop_parse_time(ZeroTime).raised = "OverflowError"
    /\ _btsnoop_parse_time(MinTimeMinus1).raised = "OverflowError"
    /\ _btsnoop_parse_time(MaxTimePlus1).raised = "OverflowError"
    /\ _btsnoop_parse_time(<<255, 255, 255, 255, 255, 255, 255, 255>>).raised = "OverflowError"
    /\ _btsnoop_parse_time(MinTime).raised = None
    /\ _btsnoop_parse_time(MaxTime).raised = None
    /\ _btsnoop_parse_time(AnchorPlus1)
           = [raised |-> None, before2000 |-> FALSE, us |-> <<0, 0, 0, 0, 0, 0, 0, 1>>]

\* a record with an overflowing timestamp went to every consumer, the flag is
\* still false and the next record has been dispatched too
C18_Witness ==
    /\ Len(dispatched) = 2
    /\ dispatched[1].time = NoneTime
    /\ g.sent[1].time64 = ZeroTime
    /\ OfferedToAll(1)
    /\ ~exit_requested
    /\ dispatched[2].time = [known |-> TRUE, before2000 |-> FALSE, us |-> ZeroTime]


\* C14: when the dispatch of a record has ended, every consumer that was
\* registered when it began and stayed registered until it ended, and whose
\* filter accepts the record, has received the record exactly once, whatever
\* other threads subscribed or unsubscribed meanwhile.
C14_ConsistentSnapshot ==
    (dispatched # <<>> /\ FullyDone(Len(dispatched))) =>
        \A c \in g.stable :
            Accepts(c.filter, dispatched[Len(dispatched)]) =>
                Cardinality({k \in 1..Len(delivered) :
                                /\ delivered[k].rec = Len(dispatched)
                                /\ delivered[k].id = c.id
                                /\ delivered[k].kind \in {"put", "full", "cb"}}) = 1


====
